---- MODULE Spec2Model ----
(***************************************************************************)
(* Configuration resolution of backend/config.py.                          *)
(*                                                                         *)
(* A Python str is a sequence of one-character strings, so that split,     *)
(* strip, lower and join are computed character by character.  The value   *)
(* None is the one-element sequence <<"None">>, whose element is not a     *)
(* character, so it differs from every str, the empty str <<>> included.   *)
(* A module global that has not been assigned yet holds Unbound.           *)
(***************************************************************************)
EXTENDS Naturals, Sequences, FiniteSets

VARIABLES env, pc, OPENROUTER_API_KEY, COUNCIL_MODELS, CHAIRMAN_MODEL, REASONING_EFFORT

vars == <<env, pc, OPENROUTER_API_KEY, COUNCIL_MODELS, CHAIRMAN_MODEL, REASONING_EFFORT>>

resolved == <<OPENROUTER_API_KEY, COUNCIL_MODELS, CHAIRMAN_MODEL, REASONING_EFFORT>>

None == <<"None">>

Unbound == <<"Unbound">>

UnboundList == <<Unbound>>

\* Bounds on the length of the environment values explored.
MaxLen == 2

MaxParseLen == 4

MaxChairmanLen == 1

MaxEffortLen == 2

EnvNames == {"OPENROUTER_API_KEY", "COUNCIL_MODELS", "CHAIRMAN_MODEL", "REASONING_EFFORT"}

Whitespace == {" ", "\t", "\n", "\r"}

UpperCase == <<"A","B","C","D","E","F","G","H","I","J","K","L","M","N","O","P","Q","R","S","T","U","V","W","X","Y","Z">>

LowerCase == <<"a","b","c","d","e","f","g","h","i","j","k","l","m","n","o","p","q","r","s","t","u","v","w","x","y","z">>

\* Python truthiness of an optional str or a list: None, "" and [] are falsy.
Truthy(v) == v # None /\ v # <<>>

\* Python's  a or b
Or(a, b) == IF Truthy(a) THEN a ELSE b

\* os.getenv(name): the value, or None when the variable is unset
getenv(name) == env[name]

\* str.split(","): one segment per comma plus one, empty segments kept
RECURSIVE Split(_)
Split(s) ==
  IF s = <<>> THEN << <<>> >>
  ELSE LET rest == Split(Tail(s))
       IN  IF Head(s) = "," THEN << <<>> >> \o rest
           ELSE << <<Head(s)>> \o Head(rest) >> \o Tail(rest)

RECURSIVE LStrip(_)
LStrip(s) == IF s # <<>> /\ Head(s) \in Whitespace THEN LStrip(Tail(s)) ELSE s

RECURSIVE RStrip(_)
RStrip(s) ==
  IF s # <<>> /\ s[Len(s)] \in Whitespace THEN RStrip(SubSeq(s, 1, Len(s) - 1)) ELSE s

\* variant: lstrip() in place of strip()
StripLeftOnly(s) == LStrip(s)

\* str.strip()
Strip(s) == RStrip(LStrip(s))

LowerChar(c) ==
  IF \E i \in 1..Len(UpperCase) : UpperCase[i] = c
  THEN LowerCase[CHOOSE i \in 1..Len(UpperCase) : UpperCase[i] = c]
  ELSE c

\* str.lower()
Lower(s) == [i \in 1..Len(s) |-> LowerChar(s[i])]

\* variant: the filter tests the raw segment, not the stripped one
ParseFilterRaw(value) ==
  IF ~Truthy(value) THEN <<>>
  ELSE LET parts == Split(value)
           kept == SelectSeq(parts, LAMBDA model : Truthy(model))
       IN  [i \in 1..Len(kept) |-> Strip(kept[i])]

\* variant: the segments are filtered but returned unstripped
ParseNoStrip(value) ==
  IF ~Truthy(value) THEN <<>>
  ELSE SelectSeq(Split(value), LAMBDA model : Truthy(Strip(model)))

\* _parse_model_list(value)
_parse_model_list(value) ==
  IF ~Truthy(value) THEN <<>>
  ELSE LET parts == Split(value)
           stripped == [i \in 1..Len(parts) |-> Strip(parts[i])]
       IN  SelectSeq(stripped, LAMBDA model : Truthy(model))

DEFAULT_COUNCIL_MODELS ==
  << <<"a","n","t","h","r","o","p","i","c","/","c","l","a","u","d","e","-","h","a","i","k","u","-","4",".","5">>,
     <<"g","o","o","g","l","e","/","g","e","m","i","n","i","-","3","-","f","l","a","s","h","-","p","r","e","v","i","e","w">>,
     <<"o","p","e","n","a","i","/","g","p","t","-","5","-","m","i","n","i">>,
     <<"x","-","a","i","/","g","r","o","k","-","4",".","1","-","f","a","s","t">> >>

MEDIUM == <<"m","e","d","i","u","m">>

\* variant: the fallback tests the raw string, not the parsed list
CouncilModelsRawCheck(raw) ==
  IF Truthy(raw) THEN _parse_model_list(raw) ELSE DEFAULT_COUNCIL_MODELS

\* variant: no fallback at all
CouncilModelsNoFallback(raw) == _parse_model_list(raw)

\* line 19: _parse_model_list(os.getenv("COUNCIL_MODELS")) or [...]
CouncilModels(raw) == Or(_parse_model_list(raw), DEFAULT_COUNCIL_MODELS)

\* line 27: os.getenv("CHAIRMAN_MODEL") or COUNCIL_MODELS[0]
\* The index is evaluated only when the left operand is falsy; on an empty
\* list it raises IndexError, modelled by the value Unbound and pc "raised".
ChairmanRaises(raw, council) == ~Truthy(raw) /\ council = <<>>

\* variant: "is not None" in place of truthiness
ChairmanModelNoneOnly(raw, council) ==
  IF raw # None THEN raw
  ELSE IF council = <<>> THEN Unbound ELSE council[1]

\* variant: an override that is not a council member is ignored
ChairmanModelMembersOnly(raw, council) ==
  IF Truthy(raw) /\ \E i \in 1..Len(council) : council[i] = raw THEN raw
  ELSE IF council = <<>> THEN Unbound ELSE council[1]

ChairmanModel(raw, council) ==
  IF Truthy(raw) THEN raw
  ELSE IF council = <<>> THEN Unbound ELSE council[1]

\* variant: the trailing  or None  is missing
ReasoningEffortNoNone(raw) == Lower(Strip(Or(raw, MEDIUM)))

\* line 30: (os.getenv("REASONING_EFFORT") or "medium").strip().lower() or None
ReasoningEffort(raw) == Or(Lower(Strip(Or(raw, MEDIUM))), None)

StringsUpTo(A, n) == UNION {[1..k -> A] : k \in 0..n}

OptStringsUpTo(A, n) == {None} \cup StringsUpTo(A, n)

CouncilAlphabet == {"a", "b", " ", ","}

ChairmanAlphabet == {"a", "B", " "}

EffortAlphabet == {"B", " "}

KeyValues == {None, <<>>, <<"k">>}

LaterValues == {None, <<"a">>}

MkEnv(k, c, ch, re) ==
  [n \in EnvNames |-> IF n = "OPENROUTER_API_KEY" THEN k
                      ELSE IF n = "COUNCIL_MODELS" THEN c
                      ELSE IF n = "CHAIRMAN_MODEL" THEN ch
                      ELSE re]

\* The environments at import time: every combination of short values, and
\* longer COUNCIL_MODELS values combined with every CHAIRMAN_MODEL value.
Environments ==
  {MkEnv(k, c, ch, re) : k \in KeyValues,
                         c \in OptStringsUpTo(CouncilAlphabet, MaxLen),
                         ch \in OptStringsUpTo(ChairmanAlphabet, MaxChairmanLen),
                         re \in OptStringsUpTo(EffortAlphabet, MaxEffortLen)}
  \cup
  {MkEnv(None, c, ch, None) : c \in OptStringsUpTo(CouncilAlphabet, MaxParseLen),
                              ch \in OptStringsUpTo(ChairmanAlphabet, MaxChairmanLen)}

Init ==
  /\ env \in Environments
  /\ pc = "line16"
  /\ OPENROUTER_API_KEY = Unbound
  /\ COUNCIL_MODELS = UnboundList
  /\ CHAIRMAN_MODEL = Unbound
  /\ REASONING_EFFORT = Unbound

ReadApiKey ==
  /\ pc = "line16"
  /\ OPENROUTER_API_KEY' = getenv("OPENROUTER_API_KEY")
  /\ pc' = "line19"
  /\ UNCHANGED <<env, COUNCIL_MODELS, CHAIRMAN_MODEL, REASONING_EFFORT>>

ResolveCouncilModels ==
  /\ pc = "line19"
  /\ COUNCIL_MODELS' = CouncilModels(getenv("COUNCIL_MODELS"))
  /\ pc' = "line27"
  /\ UNCHANGED <<env, OPENROUTER_API_KEY, CHAIRMAN_MODEL, REASONING_EFFORT>>

ResolveChairmanModel ==
  /\ pc = "line27"
  /\ IF ChairmanRaises(getenv("CHAIRMAN_MODEL"), COUNCIL_MODELS)
     THEN pc' = "raised" /\ UNCHANGED CHAIRMAN_MODEL
     ELSE /\ CHAIRMAN_MODEL' = ChairmanModel(getenv("CHAIRMAN_MODEL"), COUNCIL_MODELS)
          /\ pc' = "line30"
  /\ UNCHANGED <<env, OPENROUTER_API_KEY, COUNCIL_MODELS, REASONING_EFFORT>>

\* variant: the value is re-read from the environment after the import
ResolveReasoningEffortLive ==
  /\ pc \in {"line30", "done"}
  /\ REASONING_EFFORT' = ReasoningEffort(getenv("REASONING_EFFORT"))
  /\ pc' = IF pc = "line30" THEN "line33" ELSE pc
  /\ UNCHANGED <<env, OPENROUTER_API_KEY, COUNCIL_MODELS, CHAIRMAN_MODEL>>

ResolveReasoningEffort ==
  /\ pc = "line30"
  /\ REASONING_EFFORT' = ReasoningEffort(getenv("REASONING_EFFORT"))
  /\ pc' = "line33"
  /\ UNCHANGED <<env, OPENROUTER_API_KEY, COUNCIL_MODELS, CHAIRMAN_MODEL>>

\* lines 33-36 bind two literals; the import is then complete
DefineConstants ==
  /\ pc = "line33"
  /\ pc' = "done"
  /\ UNCHANGED <<env, resolved>>

\* after the import, the process may set or delete any of the variables
SetEnv ==
  /\ pc = "done"
  /\ \E n \in EnvNames, v \in LaterValues :
       /\ env[n] # v
       /\ env' = [env EXCEPT ![n] = v]
  /\ UNCHANGED <<pc, resolved>>

Next ==
  \/ ReadApiKey
  \/ ResolveCouncilModels
  \/ ResolveChairmanModel
  \/ ResolveReasoningEffort
  \/ DefineConstants
  \/ SetEnv

Spec == Init /\ [][Next]_vars

(***************************************************************************)
(* Properties.  While pc is not "done" the environment is still the one    *)
(* the import started from, so the resolved values can be related to env.  *)
(***************************************************************************)
CouncilResolved == pc \in {"line27", "line30", "line33"}

ChairmanResolved == pc \in {"line30", "line33"}

EffortResolved == pc = "line33"

Blank(s) == \A i \in 1..Len(s) : s[i] \in Whitespace

Elements(l) == {l[i] : i \in 1..Len(l)}

\* The comma-list contract stated by positions: the cuts are the comma
\* positions and the two ends, a segment lies between two adjacent cuts.
CommaCuts(s) == {0, Len(s) + 1} \cup {i \in 1..Len(s) : s[i] = ","}

NthCut(s, k) ==
  CHOOSE c \in CommaCuts(s) : Cardinality({d \in CommaCuts(s) : d < c}) = k

SegmentRef(s, k) == SubSeq(s, NthCut(s, k - 1) + 1, NthCut(s, k) - 1)

TrimRef(t) ==
  LET keep == {i \in 1..Len(t) : t[i] \notin Whitespace}
  IN  IF keep = {} THEN <<>>
      ELSE SubSeq(t, CHOOSE i \in keep : \A j \in keep : i <= j,
                     CHOOSE i \in keep : \A j \in keep : i >= j)

ParseRef(v) ==
  IF v = None \/ v = <<>> THEN <<>>
  ELSE LET n == Cardinality(CommaCuts(v)) - 1
           segs == [k \in 1..n |-> TrimRef(SegmentRef(v, k))]
       IN  SelectSeq(segs, LAMBDA t : t # <<>>)

\* C1: when COUNCIL_MODELS is unset or parses to the empty sequence the
\* resolved council list is the built-in default of 4 identifiers, otherwise
\* it is the parsed sequence; the resolved list is never empty.
CouncilFallback ==
  CouncilResolved =>
    LET raw == env["COUNCIL_MODELS"]
        parsed == ParseRef(raw)
    IN  /\ (raw = None \/ parsed = <<>>) => COUNCIL_MODELS = DEFAULT_COUNCIL_MODELS
        /\ ~(raw = None \/ parsed = <<>>) => COUNCIL_MODELS = parsed
        /\ COUNCIL_MODELS # <<>>
        /\ Len(DEFAULT_COUNCIL_MODELS) = 4

CouncilFallbackWitness ==
  /\ pc = "line27"
  /\ env["COUNCIL_MODELS"] = <<",", " ", ",">>
  /\ COUNCIL_MODELS = DEFAULT_COUNCIL_MODELS

\* C2: when CHAIRMAN_MODEL is unset or the empty string, the resolved
\* chairman is element 0 of the resolved council list, default or custom.
ChairmanDefault ==
  (ChairmanResolved /\ env["CHAIRMAN_MODEL"] \in {None, <<>>}) =>
    /\ CHAIRMAN_MODEL = COUNCIL_MODELS[1]
    /\ CHAIRMAN_MODEL \in Elements(COUNCIL_MODELS)

ChairmanDefaultWitness ==
  /\ pc = "line30"
  /\ env["CHAIRMAN_MODEL"] = <<>>
  /\ COUNCIL_MODELS = << <<"b">>, <<"a">> >>
  /\ CHAIRMAN_MODEL = <<"b">>

\* C3 as stated: every string value of CHAIRMAN_MODEL that is not a council
\* member is the resolved chairman verbatim.
ChairmanOverrideAnyString ==
  (/\ ChairmanResolved
   /\ env["CHAIRMAN_MODEL"] # None
   /\ env["CHAIRMAN_MODEL"] \notin Elements(COUNCIL_MODELS)) =>
    CHAIRMAN_MODEL = env["CHAIRMAN_MODEL"]

\* C3 amended: every non-empty string value of CHAIRMAN_MODEL that is not a
\* council member is the resolved chairman verbatim, untrimmed and in its
\* own case.
ChairmanOverride ==
  (/\ ChairmanResolved
   /\ env["CHAIRMAN_MODEL"] # None
   /\ env["CHAIRMAN_MODEL"] # <<>>
   /\ env["CHAIRMAN_MODEL"] \notin Elements(COUNCIL_MODELS)) =>
    CHAIRMAN_MODEL = env["CHAIRMAN_MODEL"]

ChairmanOverrideWitness ==
  /\ pc = "line30"
  /\ env["CHAIRMAN_MODEL"] = <<"B">>
  /\ env["COUNCIL_MODELS"] = <<"a", ",", "b">>
  /\ CHAIRMAN_MODEL = <<"B">>

\* C4: unset REASONING_EFFORT resolves to "medium"; every set value resolves
\* to itself trimmed and lowercased, or to absent when that is empty.
ReasoningEffortRule ==
  EffortResolved =>
    LET raw == env["REASONING_EFFORT"]
    IN  IF raw = None THEN REASONING_EFFORT = MEDIUM
        ELSE IF TrimRef(raw) = <<>> THEN REASONING_EFFORT = None
        ELSE REASONING_EFFORT = Lower(TrimRef(raw))

ParserContract ==
  LET v == env["COUNCIL_MODELS"]
  IN  /\ _parse_model_list(v) = ParseRef(v)
      /\ (v = None \/ \A i \in 1..Len(v) : v[i] \in Whitespace \cup {","})
           => _parse_model_list(v) = <<>>

ParserContractWitness ==
  /\ pc = "line27"
  /\ env["COUNCIL_MODELS"] = <<"a", " ", ",", "a">>
  /\ COUNCIL_MODELS = << <<"a">>, <<"a">> >>

\* ",".join(list)
RECURSIVE Join(_)
Join(l) ==
  IF l = <<>> THEN <<>>
  ELSE IF Len(l) = 1 THEN l[1]
  ELSE l[1] \o <<",">> \o Join(Tail(l))

\* C7: parsing the comma-join of a parsed list gives the parsed list again.
RoundTrip ==
  LET parsed == _parse_model_list(env["COUNCIL_MODELS"])
  IN  _parse_model_list(Join(parsed)) = parsed

RoundTripWitness ==
  /\ pc = "line27"
  /\ env["COUNCIL_MODELS"] = <<",", "b", " ", ",">>
  /\ Join(COUNCIL_MODELS) = <<"b">>

\* C8: no resolution rule raises, and once all rules have run the credential
\* is bound (present or absent), the council list is non-empty, the chairman
\* is a string and the reasoning effort is bound; the list indexed at line
\* 27 is never empty.
NeverFails ==
  /\ pc # "raised"
  /\ pc = "line27" => COUNCIL_MODELS # <<>>
  /\ pc \in {"line33", "done"} =>
       /\ OPENROUTER_API_KEY # Unbound
       /\ COUNCIL_MODELS # UnboundList
       /\ COUNCIL_MODELS # <<>>
       /\ CHAIRMAN_MODEL \notin {Unbound, None}
       /\ REASONING_EFFORT # Unbound

NeverFailsWitness ==
  /\ pc = "line33"
  /\ env = MkEnv(None, <<",", ",">>, None, <<" ">>)
  /\ CHAIRMAN_MODEL = DEFAULT_COUNCIL_MODELS[1]
  /\ REASONING_EFFORT = None

\* C9: each value is assigned once, in the order credential, council list,
\* chairman, reasoning effort, and after the import no change of the
\* environment changes a resolved value.
ReadOnce ==
  [][/\ pc = "done" => resolved' = resolved
     /\ OPENROUTER_API_KEY' # OPENROUTER_API_KEY =>
          pc = "line16" /\ COUNCIL_MODELS = UnboundList
     /\ COUNCIL_MODELS' # COUNCIL_MODELS =>
          pc = "line19" /\ OPENROUTER_API_KEY # Unbound /\ CHAIRMAN_MODEL = Unbound
     /\ CHAIRMAN_MODEL' # CHAIRMAN_MODEL =>
          pc = "line27" /\ COUNCIL_MODELS # UnboundList /\ REASONING_EFFORT = Unbound
     /\ REASONING_EFFORT' # REASONING_EFFORT =>
          pc = "line30" /\ CHAIRMAN_MODEL # Unbound]_vars

ReadOnceWitness ==
  /\ pc = "done"
  /\ env = MkEnv(<<"a">>, <<"a">>, <<"a">>, <<"a">>)
  /\ resolved = <<None, DEFAULT_COUNCIL_MODELS, DEFAULT_COUNCIL_MODELS[1], MEDIUM>>

\* C10: every element of the resolved council list is non-empty, has no
\* leading or trailing whitespace and contains no comma, and the resolved
\* chairman is a non-empty string, never absent.
WellFormed ==
  /\ pc \in {"line27", "line30", "line33", "done"} =>
       \A m \in Elements(COUNCIL_MODELS) :
         /\ m # <<>>
         /\ m[1] \notin Whitespace
         /\ m[Len(m)] \notin Whitespace
         /\ \A i \in 1..Len(m) : m[i] # ","
  /\ pc \in {"line30", "line33", "done"} =>
       CHAIRMAN_MODEL \notin {None, Unbound, <<>>}

WellFormedWitness ==
  /\ pc = "line30"
  /\ env["COUNCIL_MODELS"] = <<" ", "a", " ", ",">>
  /\ env["CHAIRMAN_MODEL"] = None
  /\ CHAIRMAN_MODEL = <<"a">>

====
